---- MODULE Spec2Model ----
(***************************************************************************)
(* A model of fixed_pool (src/src/lib.rs): FixedPool::new, FixedPool::pull *)
(* and the drop of a PoolBorrow, at the granularity of the atomic          *)
(* operations on the occupancy words (load, fetch_or, fetch_and).          *)
(*                                                                         *)
(* Words are naturals below 2^BITS and every bit operation is computed by  *)
(* arithmetic, as the code computes it.  BITS stands for usize::BITS: the  *)
(* model runs the same code on a narrower word.                            *)
(***************************************************************************)
EXTENDS Naturals, Sequences, FiniteSets

\* ------------------------------------------------------------ bounds
\* width of an occupancy word (usize::BITS of the modelled machine)
BITS == 2
\* pools are built from 0..MaxN values
MaxN == 3
\* number of threads that call pull
NumThreads == 2
\* the value a holder writes through deref_mut
WrittenValue == 8

\* the state a custom reset policy puts a value in
ResetState == 0
Threads == 1..NumThreads
\* the thread whose pulls the ghost variables follow (the threads are alike)
Observed == CHOOSE t \in Threads : \A u \in Threads : t <= u
Policies == {"noop", "custom"}

VARIABLES
  N,               \* elements.len()
  checked,         \* TRUE: the build has overflow checks (debug profile)
  policy,          \* the reset policy R: "noop" (NoopReset) or "custom"
  pulled_elements, \* FixedPoolInner::pulled_elements, a sequence of words
  elements,        \* FixedPoolInner::elements, slot i at position i + 1
  live,            \* live[i]: handles with index i whose drop has not begun
  dropping,        \* dropping[i]: handles with index i between reset and fetch_and
  crashed,         \* an out-of-bounds access through get_unchecked ended the process
  owns,            \* owns[t]: thread t holds a FixedPool (a clone of the Arc)
  strong,          \* the strong count of the Arc<FixedPoolInner>
  torn,            \* the FixedPoolInner has been dropped
  pc,              \* position of each thread in pull
  usize_index,     \* pull's loop variable
  present_value,   \* pull's local snapshot of the word
  next_zero,       \* pull's target bit
  attempts,        \* calls of pull the thread has made, where the caller counts them
  result,          \* ghost: what Observed's last pull returned (Pending: none yet)
  alone,           \* ghost: no other pull or drop step since Observed's pull began
  fullAll,         \* ghost: N handles were live when Observed's pull began, no drop began since
  sawFull,         \* ghost: all N slots were occupied at some instant of Observed's pull
  seenOcc,         \* ghost: slots occupied at some instant of Observed's pull
  fresh,           \* ghost: the holder of slot i has not written since its pull
  due,             \* ghost: the value the next holder of slot i is to find
  resetRuns,       \* ghost: reset invocations by the drop in progress on index i
  loaded           \* ghost: <<v>>, v the value Observed's pull loaded from the word it
                   \* is working on; << >> in the specifications that do not follow it

shared == <<N, checked, policy, pulled_elements, elements, live, dropping, crashed>>
sharing == <<owns, strong, torn>>
locals == <<pc, usize_index, present_value, next_zero, attempts>>
ghosts == <<result, alone, fullAll, sawFull, seenOcc, fresh, due, resetRuns, loaded>>
vars == <<shared, sharing, locals, ghosts>>

\* ------------------------------------------------------------ word arithmetic
Pow2(n) == 2^n

USIZE_MAX == Pow2(BITS) - 1

Bit(w, b) == (w \div Pow2(b)) % 2

\* a | b and a & b, bit by bit from the lowest
RECURSIVE BitOr(_, _)
BitOr(a, b) ==
  IF a = 0 THEN b
  ELSE IF b = 0 THEN a
  ELSE (IF (a % 2) + (b % 2) > 0 THEN 1 ELSE 0) + 2 * BitOr(a \div 2, b \div 2)

RECURSIVE BitAnd(_, _)
BitAnd(a, b) ==
  IF a = 0 \/ b = 0 THEN 0
  ELSE ((a % 2) * (b % 2)) + 2 * BitAnd(a \div 2, b \div 2)
BitNot(a) == USIZE_MAX - a

\* x << s on usize: a shift amount >= BITS is an overflow; a build without
\* overflow checks masks the amount (s % BITS), a build with them panics.
ShlOverflows(s) == s >= BITS
Shl(x, s) == (x * Pow2(s % BITS)) % Pow2(BITS)

RECURSIVE trailing_ones(_)
trailing_ones(w) == IF w % 2 = 1 THEN 1 + trailing_ones(w \div 2) ELSE 0

\* a subtraction that is left out
SubSkipped(a, b) == a

saturating_sub(a, b) == IF a >= b THEN a - b ELSE 0

\* ------------------------------------------------------------ FixedPool::new
\* the occupancy words built for n values (lines 24-36)
NewPulledElements(n) ==
  LET pulled_element_len == saturating_sub(n, 1) \div BITS + 1
      zeroed == [k \in 1..pulled_element_len |-> 0]
      remaining_elements_len == n % BITS
  IN  IF remaining_elements_len > 0 /\ pulled_element_len > 0
        THEN [zeroed EXCEPT ![pulled_element_len] =
                 BitOr(@, Shl(USIZE_MAX, remaining_elements_len))]
        ELSE zeroed

\* the values the pool is built from: 1, 2, ..., n
NewElements(n) == [k \in 1..n |-> k]

\* ------------------------------------------------------------ derived state
NumBits == Len(pulled_elements) * BITS
Indices == 0..(NumBits - 1)
WordOf(pe, i) == pe[(i \div BITS) + 1]
Occupied(pe, i) == Bit(WordOf(pe, i), i % BITS) = 1
Slots == 0..(N - 1)
OccupiedSlots(pe) == {i \in Slots : Occupied(pe, i)}
Full(pe) == OccupiedSlots(pe) = Slots

RECURSIVE SumOver(_, _)
SumOver(f, S) == IF S = {} THEN 0
                 ELSE LET x == CHOOSE y \in S : TRUE IN f[x] + SumOver(f, S \ {x})
Handles(i) == live[i] + dropping[i]
LiveHandles == SumOver(live, Indices) + SumOver(dropping, Indices)

\* ------------------------------------------------------------ R::reset
\* a custom policy whose reset is never applied
ResetForgotten(p, v) == v

\* NoopReset::reset leaves the value; the custom policy of the model stores ResetState
Reset(p, v) == IF p = "custom" THEN ResetState ELSE v

\* what the next holder is to find after a holder left v: the reset state under
\* a custom policy, v itself under NoopReset
Expected(p, v) == CASE p = "noop" -> v [] p = "custom" -> ResetState

\* ------------------------------------------------------------ FixedPool::pull
Pending == [kind |-> "pending", index |-> 0]
None == [kind |-> "None", index |-> 0]
Some(i) == [kind |-> "Some", index |-> i]

\* a scan that marks the whole word as scanned once it has picked its bit
ScanWholeWord(pv) ==
  LET nz == trailing_ones(pv)
  IN  [next_zero |-> nz,
       present_value |-> USIZE_MAX,
       overflow |-> ShlOverflows(1) \/ ShlOverflows(nz)]

\* the condition block of the while loop (lines 52-56) on snapshot pv
Scan(pv) ==
  LET nz == trailing_ones(pv)
  IN  [next_zero |-> nz,
       present_value |-> BitOr(pv, BitNot(Shl(Shl(USIZE_MAX, 1), nz))),
       overflow |-> ShlOverflows(1) \/ ShlOverflows(nz)]

\* where thread-local control goes after a scan of snapshot pv in word idx (0-based)
AfterScan(pv, idx) ==
  LET s == Scan(pv)
  IN  IF s.overflow /\ checked
        THEN [pc |-> "panicked", usize_index |-> 0, present_value |-> 0,
              next_zero |-> 0, result |-> Pending]
      ELSE IF s.next_zero < BITS
        THEN [pc |-> "fetch_or", usize_index |-> idx, present_value |-> s.present_value,
              next_zero |-> s.next_zero, result |-> Pending]
      ELSE IF idx + 1 < Len(pulled_elements)
        THEN [pc |-> "load", usize_index |-> idx + 1, present_value |-> 0,
              next_zero |-> 0, result |-> Pending]
      ELSE [pc |-> "idle", usize_index |-> 0, present_value |-> 0,
            next_zero |-> 0, result |-> None]

SetLocals(t, l) ==
  /\ pc' = [pc EXCEPT ![t] = l.pc]
  /\ usize_index' = [usize_index EXCEPT ![t] = l.usize_index]
  /\ present_value' = [present_value EXCEPT ![t] = l.present_value]
  /\ next_zero' = [next_zero EXCEPT ![t] = l.next_zero]
  /\ result' = IF t = Observed THEN l.result ELSE result

\* a thread is inside pull: past its first load, not yet returned
InScan(t) == pc[t] \in {"load", "fetch_or"}

\* sawFull and seenOcc are kept for a pull that is running or returned None
Kept(l) == l.pc \in {"load", "fetch_or"} \/ l.result = None

\* the ghosts of Observed's pull after a step that leaves the occupancy words
\* as pe: a step of Observed's pull (mine) that leaves it at l, or a step of
\* another pull or of a drop
Observe(mine, pe, l) ==
  /\ alone' = (alone /\ mine)
  /\ IF mine /\ ~Kept(l)
       THEN sawFull' = FALSE /\ seenOcc' = {}
       ELSE /\ sawFull' = IF InScan(Observed) THEN sawFull \/ Full(pe) ELSE sawFull
            /\ seenOcc' = IF InScan(Observed) THEN seenOcc \cup OccupiedSlots(pe)
                          ELSE seenOcc

\* the ghost loaded after a step of thread t that leaves it at l, v being the
\* value its load returned: kept while the pull works on that word
Remember(t, l, v) ==
  loaded' = IF t = Observed /\ Len(loaded) > 0
              THEN (IF l.pc = "fetch_or" THEN <<v>> ELSE <<0>>)
              ELSE loaded

Idle == [pc |-> "idle", usize_index |-> 0, present_value |-> 0,
         next_zero |-> 0, result |-> Pending]

\* the call pull(&self), up to the first word's value.load(Ordering::Acquire)
\* and the scan of that word (lines 48-56)
Call(t) ==
  /\ ~crashed
  /\ owns[t]
  /\ pc[t] = "idle"
  /\ LET l == IF Len(pulled_elements) = 0
                THEN [Idle EXCEPT !.result = None]
                ELSE AfterScan(pulled_elements[1], 0)
     IN  /\ SetLocals(t, l)
         /\ Remember(t, l, IF Len(pulled_elements) = 0 THEN 0 ELSE pulled_elements[1])
         /\ IF t = Observed
              THEN /\ alone' = TRUE
                   /\ fullAll' = (SumOver(live, Indices) = N
                                    /\ SumOver(dropping, Indices) = 0)
                   /\ sawFull' = (Kept(l) /\ Full(pulled_elements))
                   /\ seenOcc' = IF Kept(l) THEN OccupiedSlots(pulled_elements) ELSE {}
              ELSE /\ Observe(t = Observed, pulled_elements, l)
                   /\ UNCHANGED fullAll
  /\ UNCHANGED <<shared, sharing, fresh, due, resetRuns>>

\* pull called by a thread that calls it whenever it likes
PullStart(t) ==
  /\ Call(t)
  /\ UNCHANGED attempts

\* pull called by a thread that makes N attempts: for _ in 0..N { pull() }
PullCounted(t) ==
  /\ attempts[t] < N
  /\ Call(t)
  /\ attempts' = [attempts EXCEPT ![t] = @ + 1]

\* value.load(Ordering::Acquire) of a later word and the scan of it (lines 50-56)
Load(t) ==
  /\ ~crashed
  /\ pc[t] = "load"
  /\ LET l == AfterScan(pulled_elements[usize_index[t] + 1], usize_index[t])
     IN  /\ SetLocals(t, l)
         /\ Remember(t, l, pulled_elements[usize_index[t] + 1])
         /\ Observe(t = Observed, pulled_elements, l)
  /\ UNCHANGED <<shared, sharing, attempts, fullAll, fresh, due, resetRuns>>

\* a handle that borrows the pool without taking a share of the Arc
HandleBorrows(count) == count

\* pool: self.clone() (line 62): the handle takes a share of the Arc
HandleClone(count) == count + 1

\* a mask that covers the target bit and every bit above it
MaskAbove(nz) == Shl(USIZE_MAX, nz)

\* let mask = 1 << next_zero (line 58)
Mask(nz) == Shl(1, nz)

\* a fetch_or that always takes the bit for won
WonAlways(old, mask) == TRUE

\* (value.fetch_or(mask, ..) & mask) == 0: this thread set the bit (line 59)
Won(old, mask) == BitAnd(old, mask) = 0

\* value.fetch_or(mask, Ordering::AcqRel) and what follows it (lines 58-65)
FetchOr(t) ==
  /\ ~crashed
  /\ pc[t] = "fetch_or"
  /\ LET k == usize_index[t] + 1
         mask == Mask(next_zero[t])
         old == pulled_elements[k]
         pe == [pulled_elements EXCEPT ![k] = BitOr(old, mask)]
         index == usize_index[t] * BITS + next_zero[t]
         l == IF Won(old, mask)
                THEN [Idle EXCEPT !.result = Some(index)]
                ELSE AfterScan(present_value[t], usize_index[t])
     IN  /\ pulled_elements' = pe
         /\ SetLocals(t, l)
         /\ Remember(t, l, IF Len(loaded) > 0 THEN loaded[1] ELSE 0)
         /\ Observe(t = Observed, pe, l)
         /\ IF Won(old, mask)
              THEN /\ live' = [live EXCEPT ![index] = @ + 1]
                   /\ fresh' = [fresh EXCEPT ![index] = TRUE]
                   /\ resetRuns' = [resetRuns EXCEPT ![index] = 0]
                   /\ strong' = HandleClone(strong)
              ELSE UNCHANGED <<live, fresh, resetRuns, strong>>
  /\ UNCHANGED <<N, checked, policy, elements, dropping, crashed, owns, torn,
                 attempts, fullAll, due>>

\* ------------------------------------------------------------ PoolBorrow
\* deref_mut by the holder of index i, then a write of WrittenValue (lines 119-123)
Write(i) ==
  /\ ~crashed
  /\ live[i] > 0
  /\ IF i < N
       THEN /\ elements' = [elements EXCEPT ![i + 1] = WrittenValue]
            /\ fresh' = [fresh EXCEPT ![i] = FALSE]
            /\ UNCHANGED crashed
       ELSE \* get_unchecked past the end of elements: undefined behaviour
            /\ crashed' \in BOOLEAN
            /\ UNCHANGED <<elements, fresh>>
  /\ UNCHANGED <<N, checked, policy, pulled_elements, live, dropping, sharing, locals,
                 result, alone, fullAll, sawFull, seenOcc, due, resetRuns, loaded>>

\* a drop that forgets the reset
ResetSkipped(i) == UNCHANGED <<elements, crashed, resetRuns>>

\* R::reset(&mut *self) on the value of handle i (line 128, through deref_mut)
RunReset(i) ==
  /\ resetRuns' = [resetRuns EXCEPT ![i] = @ + 1]
  /\ IF i < N
       THEN /\ elements' = [elements EXCEPT ![i + 1] = Reset(policy, @)]
            /\ UNCHANGED crashed
       ELSE \* get_unchecked past the end of elements: undefined behaviour
            /\ crashed' \in BOOLEAN
            /\ UNCHANGED elements

\* drop, first half: the reset (lines 126-128)
DropReset(i) ==
  /\ ~crashed
  /\ live[i] > 0
  /\ live' = [live EXCEPT ![i] = @ - 1]
  /\ dropping' = [dropping EXCEPT ![i] = @ + 1]
  /\ RunReset(i)
  /\ due' = IF i < N THEN [due EXCEPT ![i] = Expected(policy, elements[i + 1])] ELSE due
  /\ fresh' = [fresh EXCEPT ![i] = FALSE]
  /\ Observe(FALSE, pulled_elements, Idle)
  /\ fullAll' = FALSE
  /\ UNCHANGED <<N, checked, policy, pulled_elements, sharing, locals, result, loaded>>

\* a release mask without its complement: it keeps the bit and clears the others
ClearMaskPlain(bit_index) == Shl(1, bit_index)

\* !(1 << bit_index), the operand of the fetch_and (line 135)
ClearMask(bit_index) == BitNot(Shl(1, bit_index))

\* the drop of one share of the Arc, by a FixedPool or by the pool field of a
\* handle: the last share to go tears the FixedPoolInner down
Release ==
  /\ strong' = strong - 1
  /\ torn' = (strong - 1 = 0)

\* drop, second half: fetch_and(!(1 << bit_index), Ordering::AcqRel) (lines
\* 129-135), then the drop of the handle's pool field (line 138)
DropRelease(i) ==
  /\ ~crashed
  /\ ~torn
  /\ dropping[i] > 0
  /\ LET usize_idx == i \div BITS
         bit_index == i % BITS
         pe == [pulled_elements EXCEPT ![usize_idx + 1] =
                  BitAnd(@, ClearMask(bit_index))]
     IN  /\ pulled_elements' = pe
         /\ Observe(FALSE, pe, Idle)
  /\ dropping' = [dropping EXCEPT ![i] = @ - 1]
  /\ resetRuns' = [resetRuns EXCEPT ![i] = 0]
  /\ Release
  /\ UNCHANGED <<N, checked, policy, elements, live, crashed, owns, locals,
                 result, fullAll, fresh, due, loaded>>

\* ------------------------------------------------------------ FixedPool handles
\* thread t clones its FixedPool and hands the clone to thread u (lines 72-76)
Clone(t, u) ==
  /\ owns[t]
  /\ ~owns[u]
  /\ pc[u] = "idle"
  /\ owns' = [owns EXCEPT ![u] = TRUE]
  /\ strong' = strong + 1
  /\ UNCHANGED <<shared, torn, locals, ghosts>>

\* thread t drops its FixedPool, outside any call of pull or when it unwinds
DropPool(t) ==
  /\ owns[t]
  /\ pc[t] \in {"idle", "panicked"}
  /\ owns' = [owns EXCEPT ![t] = FALSE]
  /\ Release
  /\ UNCHANGED <<shared, locals, ghosts>>

\* ------------------------------------------------------------ specifications
\* the state after FixedPool::new(1, 2, ..., N), nothing pulled yet
New ==
  /\ N \in 0..MaxN
  /\ checked \in BOOLEAN
  /\ policy \in Policies
  /\ pulled_elements = NewPulledElements(N)
  /\ elements = NewElements(N)
  /\ live = [i \in 0..(Len(NewPulledElements(N)) * BITS - 1) |-> 0]
  /\ dropping = [i \in 0..(Len(NewPulledElements(N)) * BITS - 1) |-> 0]
  /\ crashed = FALSE
  /\ pc = [t \in Threads |-> "idle"]
  /\ usize_index = [t \in Threads |-> 0]
  /\ present_value = [t \in Threads |-> 0]
  /\ next_zero = [t \in Threads |-> 0]
  /\ attempts = [t \in Threads |-> 0]
  /\ result = Pending
  /\ alone = FALSE
  /\ fullAll = FALSE
  /\ sawFull = FALSE
  /\ seenOcc = {}
  /\ fresh = [i \in 0..(Len(NewPulledElements(N)) * BITS - 1) |-> FALSE]
  /\ due = [i \in 0..(Len(NewPulledElements(N)) * BITS - 1) |->
              IF i < N THEN NewElements(N)[i + 1] ELSE 0]
  /\ resetRuns = [i \in 0..(Len(NewPulledElements(N)) * BITS - 1) |-> 0]
  /\ torn = FALSE

\* every thread has been handed a clone of the pool
Handed ==
  /\ owns = [t \in Threads |-> TRUE]
  /\ strong = NumThreads

\* the pool is built and every thread has been handed a clone of it
Init ==
  /\ New
  /\ Handed
  /\ loaded = << >>

\* threads pull concurrently, handles are dropped at any time; values are
\* due as they are (NoopReset, no writes)
InitPool == Init /\ policy = "noop"

Next ==
  \/ \E t \in Threads : PullStart(t)
  \/ \E t \in Threads : Load(t)
  \/ \E t \in Threads : FetchOr(t)
  \/ \E i \in Indices : DropReset(i)
  \/ \E i \in Indices : DropRelease(i)

Spec == InitPool /\ [][Next]_vars

\* as Spec, and the value each load of Observed's pull returned is followed
InitRetry ==
  /\ New
  /\ Handed
  /\ policy = "noop"
  /\ loaded = <<0>>

SpecRetry == InitRetry /\ [][Next]_vars

\* one thread pulls, holders write through their handles, handles are dropped
\* at any time, under either reset policy
NextValues ==
  \/ PullStart(Observed)
  \/ Load(Observed)
  \/ FetchOr(Observed)
  \/ \E i \in Indices : Write(i)
  \/ \E i \in Indices : DropReset(i)
  \/ \E i \in Indices : DropRelease(i)

SpecValues == Init /\ [][NextValues]_vars

\* every thread makes N attempts and keeps the handles it gets
NextKeep ==
  \/ \E t \in Threads : PullCounted(t)
  \/ \E t \in Threads : Load(t)
  \/ \E t \in Threads : FetchOr(t)

SpecKeep == InitPool /\ [][NextKeep]_vars

\* the pool is built by one thread, which holds the only FixedPool
InitShare ==
  /\ New
  /\ policy = "noop"
  /\ owns = [t \in Threads |-> t = Observed]
  /\ strong = 1
  /\ loaded = << >>

\* FixedPools are cloned, handed to other threads and dropped while the
\* threads that hold one pull and handles are dropped
NextShare ==
  \/ \E t, u \in Threads : Clone(t, u)
  \/ \E t \in Threads : DropPool(t)
  \/ \E t \in Threads : PullStart(t)
  \/ \E t \in Threads : Load(t)
  \/ \E t \in Threads : FetchOr(t)
  \/ \E i \in Indices : DropReset(i)
  \/ \E i \in Indices : DropRelease(i)

SpecShare == InitShare /\ [][NextShare]_vars

TypeOK ==
  /\ \A k \in 1..Len(pulled_elements) : pulled_elements[k] \in 0..USIZE_MAX
  /\ \A t \in Threads : pc[t] \in {"idle", "load", "fetch_or", "panicked"}

\* ------------------------------------------------------------ claims
Returned == pc[Observed] = "idle" /\ result # Pending
AllHeld == \A i \in Slots : Handles(i) >= 1

\* C1. Index uniqueness: in every reachable state no two live handles (live
\* from the winning fetch_or of pull to the fetch_and of drop) have the same
\* index.
C1_IndexUniqueness == \A i \in Indices : Handles(i) <= 1

\* two handles are out, one of them inside its drop, while a pull is at its fetch_or
C1_Witness ==
  /\ \E i, j \in Indices : i # j /\ live[i] = 1 /\ dropping[j] = 1
  /\ \E t \in Threads : pc[t] = "fetch_or"

\* C2. Valid index: for every N >= 0, every handle returned by pull has an
\* index below N, so no deref or drop addresses a cell outside elements.
C2_ValidIndex ==
  /\ \A i \in Indices : Handles(i) > 0 => i < N
  /\ result.kind = "Some" => result.index < N
  /\ ~crashed

\* C3. Capacity bound: the live handles never number more than N, and a pull
\* that runs while N handles are live, no drop in progress, returns None.
C3_CapacityBound ==
  /\ LiveHandles <= N
  /\ (fullAll /\ pc[Observed] \in {"idle", "panicked"}) => result = None

\* C4. Empty pool: every pull on a pool built from zero values returns None;
\* no handle is ever produced.
C4_EmptyPool ==
  N = 0 => /\ LiveHandles = 0
           /\ result.kind # "Some"
           /\ \A t \in Threads : pc[t] # "panicked"

\* C5. Exhaustion is never a fault: a pull that scans a word whose bits are
\* all set completes normally; it never panics or traps on overflow.
C5_ExhaustionNoFault == \A t \in Threads : pc[t] # "panicked"

\* the thread has made its N attempts, or died in one
Finished(t) == pc[t] = "panicked" \/ (pc[t] = "idle" /\ attempts[t] = N)

\* C6. Concurrent claim count: when every thread has made its N attempts on a
\* pool of N >= 1 values and kept its handles, exactly N pulls have returned a
\* handle, and the N indices are pairwise distinct.
C6_ClaimCount ==
  (N >= 1 /\ \A t \in Threads : Finished(t))
    => (LiveHandles = N /\ \A i \in Indices : Handles(i) <= 1)

\* C7. Release frees capacity: a pull that runs with no other pull or drop
\* interleaved returns Some unless all N slots are held by live handles.
C7_ReleaseFreesCapacity ==
  (alone /\ pc[Observed] \in {"idle", "panicked"} /\ ~AllHeld) => result.kind = "Some"

\* C8. Reset before release, exactly once: the bit of index i is cleared only
\* by a drop whose reset has run exactly once, and no handle for i is created
\* while a handle for i is live or inside its drop.
C8_ResetBeforeRelease ==
  [][\A i \in Indices :
       /\ (Occupied(pulled_elements, i) /\ ~Occupied(pulled_elements', i))
            => (dropping[i] = 1 /\ resetRuns[i] = 1)
       /\ resetRuns'[i] <= 1
       /\ (live'[i] > live[i] => Handles(i) = 0)]_vars

\* a reset has run on slot i and its bit is still set, while a pull is at its fetch_or
C8_Witness ==
  \E i \in Slots : /\ dropping[i] = 1
                   /\ resetRuns[i] = 1
                   /\ Occupied(pulled_elements, i)
                   /\ \E t \in Threads : pc[t] = "fetch_or"

\* C9. Value hand-over: right after a successful pull the holder of slot i
\* finds the value the previous holder left, reset by the policy (unchanged
\* under NoopReset, the reset state under a custom policy), or the initial
\* value if the slot was never held.
C9_ValueHandOver ==
  \A i \in Slots : (live[i] > 0 /\ fresh[i]) => elements[i + 1] = due[i]

\* a new holder finds the reset state in a slot, not what the last holder wrote
C9_Witness ==
  \E i \in Slots : /\ live[i] > 0
                   /\ fresh[i]
                   /\ policy = "custom"
                   /\ elements[i + 1] = ResetState

C11_OccupancyReflectsOwnership ==
  /\ \A i \in Slots : Occupied(pulled_elements, i) <=> Handles(i) = 1
  /\ LiveHandles = 0 => OccupiedSlots(pulled_elements) = {}

\* a slot was released (its bit is clear, no handle) while a higher slot of the
\* same word is held and a third handle is inside its drop, its bit still set
C11_Witness ==
  \E i, j \in Slots :
     /\ i < j /\ i \div BITS = j \div BITS
     /\ ~Occupied(pulled_elements, i) /\ Handles(i) = 0
     /\ Occupied(pulled_elements, j) /\ live[j] = 1
     /\ \E k \in Slots : dropping[k] = 1 /\ Occupied(pulled_elements, k)

\* C12. Padding bits stay set: for every N >= 0, every bit of the occupancy
\* words at a position >= N is 1 right after FixedPool::new and in every
\* reachable state.
C12_PaddingStaysSet == \A i \in Indices : i >= N => Occupied(pulled_elements, i)

\* the lowest zero bit of w above bit b, BITS if there is none
LowestZeroAbove(w, b) ==
  LET Z == {c \in (b + 1)..(BITS - 1) : Bit(w, c) = 0}
  IN  IF Z = {} THEN BITS ELSE CHOOSE c \in Z : \A d \in Z : c <= d

\* this step is a fetch_or of Observed's pull that finds its bit already set
LostRace ==
  /\ pc[Observed] = "fetch_or"
  /\ Bit(pulled_elements[usize_index[Observed] + 1], next_zero[Observed]) = 1
  /\ <<pc[Observed], next_zero[Observed]>>' # <<pc[Observed], next_zero[Observed]>>

\* after this step Observed's pull targets the lowest zero bit of w above the
\* bit it lost, in the same word, or is done with the word if w has none
RetriesIn(w) ==
  LET c == LowestZeroAbove(w, next_zero[Observed])
      same == pc'[Observed] = "fetch_or" /\ usize_index'[Observed] = usize_index[Observed]
  IN  IF c < BITS THEN same /\ next_zero'[Observed] = c ELSE ~same

\* C13 as stated: when a pull's fetch_or on bit b finds b already set, the next
\* bit the pull targets in that word is the lowest zero bit above b in the word
\* value returned by that fetch_or.
C13_RetryFromReturned ==
  [][LostRace => RetriesIn(pulled_elements[usize_index[Observed] + 1])]_vars

\* C13 as amended: when a pull's fetch_or on bit b finds b already set, the next
\* bit the pull targets in that word is the lowest zero bit above b in the
\* value loaded at the start of the word; the value the fetch_or returned is
\* used for bit b only and the word is not loaded again.
C13_RetryFromLoaded ==
  [][LostRace =>
       /\ RetriesIn(loaded[1])
       /\ pc'[Observed] = "fetch_or" =>
            \A c \in (next_zero'[Observed] + 1)..(BITS - 1) :
               Bit(present_value'[Observed], c) = Bit(loaded[1], c)]_vars

\* after a lost race (a bit below the target was clear in the loaded value) the
\* pull targets a bit that is clear in the loaded value and set in the word
C13_Witness ==
  /\ pc[Observed] = "fetch_or"
  /\ \E b \in 0..(BITS - 1) : b < next_zero[Observed] /\ Bit(loaded[1], b) = 0
  /\ Bit(loaded[1], next_zero[Observed]) = 0
  /\ Bit(pulled_elements[usize_index[Observed] + 1], next_zero[Observed]) = 1

\* the occupancy words as they were before Observed's uninterrupted pull: the
\* present words without the bit the pull set, if it returned a handle
BeforePull ==
  IF result.kind = "Some"
    THEN [pulled_elements EXCEPT ![result.index \div BITS + 1] =
            BitAnd(@, ClearMask(result.index % BITS))]
    ELSE pulled_elements

\* C14. First-fit result: a pull that runs with no other pull or drop
\* interleaved while at least one slot is free returns the handle of the
\* smallest free slot index, which is word_index * BITS + bit_position of the
\* lowest zero bit of the first word that has one.
C14_FirstFit ==
  (alone /\ pc[Observed] \in {"idle", "panicked"}) =>
    LET free == Slots \ OccupiedSlots(BeforePull)
        words == {k \in 1..Len(BeforePull) : BeforePull[k] # USIZE_MAX}
        first == CHOOSE k \in words : \A m \in words : k <= m
    IN  free # {} =>
          /\ result.kind = "Some"
          /\ result.index \in free
          /\ \A j \in free : result.index <= j
          /\ result.index = (first - 1) * BITS + trailing_ones(BeforePull[first])

\* C15. Bounded, non-blocking pull: under every interleaving a pull returns
\* after at most BITS fetch_or attempts per word: its target bit is below BITS,
\* strictly increases on each retry in a word, its word index never goes back,
\* its next step never waits for another thread, and it ends by returning,
\* never in a fault.
C15_BoundedPull ==
  [][\A t \in Threads :
       /\ pc'[t] # "panicked"
       /\ pc'[t] = "fetch_or" => next_zero'[t] < BITS
       /\ (pc[t] = "fetch_or" /\ pc'[t] = "fetch_or"
             /\ <<usize_index[t], next_zero[t]>>' # <<usize_index[t], next_zero[t]>>)
            => (usize_index'[t] = usize_index[t] /\ next_zero'[t] > next_zero[t])
       /\ (InScan(t) /\ pc'[t] \in {"load", "fetch_or"})
            => usize_index'[t] >= usize_index[t]
       /\ (InScan(t) /\ ~crashed) => ENABLED (Load(t) \/ FetchOr(t))]_vars

\* C16. Release frame: the drop of a handle with index i clears exactly bit i
\* of the occupancy words and leaves every other occupancy bit, every other
\* slot's value and every other handle unchanged, whatever pulls and drops on
\* other indices (of the same word too) run around it.
C16_ReleaseFrame ==
  [][\A i \in Indices :
       /\ live'[i] < live[i] =>
            /\ pulled_elements' = pulled_elements
            /\ \A j \in Slots \ {i} : elements'[j + 1] = elements[j + 1]
            /\ \A j \in Indices \ {i} : live'[j] = live[j] /\ dropping'[j] = dropping[j]
       /\ dropping'[i] < dropping[i] =>
            /\ \A j \in Indices : Occupied(pulled_elements', j)
                                     <=> (Occupied(pulled_elements, j) /\ j # i)
            /\ elements' = elements
            /\ live' = live
            /\ \A j \in Indices \ {i} : dropping'[j] = dropping[j]]_vars

\* slot i was reset and released while the holder of a higher slot of the same
\* word keeps its bit and the value it wrote
C16_Witness ==
  \E i, j \in Slots :
     /\ i < j /\ i \div BITS = j \div BITS
     /\ ~Occupied(pulled_elements, i) /\ Handles(i) = 0
     /\ policy = "custom" /\ elements[i + 1] = ResetState
     /\ Occupied(pulled_elements, j) /\ live[j] = 1 /\ elements[j + 1] = WrittenValue

\* this step is a step of thread t's pull
PullStep(t) ==
  <<pc[t], usize_index[t], present_value[t], next_zero[t]>>'
    # <<pc[t], usize_index[t], present_value[t], next_zero[t]>>

\* C17. Pull frame: a pull never clears an occupancy bit and never modifies a
\* slot value; a pull that returns Some(i) has changed exactly bit i from 0 to
\* 1, and every other step of a pull (its lost fetch_or attempts, a pull that
\* returns None) leaves the occupancy words as they are.
C17_PullFrame ==
  [][\A t \in Threads : PullStep(t) =>
       /\ elements' = elements
       /\ dropping' = dropping
       /\ IF pulled_elements' = pulled_elements
            THEN live' = live /\ ~(t = Observed /\ result'.kind = "Some")
            ELSE LET i == usize_index[t] * BITS + next_zero[t]
                 IN  /\ pc[t] = "fetch_or" /\ pc'[t] = "idle"
                     /\ \A j \in Indices : Occupied(pulled_elements', j)
                                              <=> (Occupied(pulled_elements, j) \/ j = i)
                     /\ ~Occupied(pulled_elements, i)
                     /\ live' = [live EXCEPT ![i] = @ + 1]
                     /\ t = Observed => result' = Some(i)]_vars

\* a pull returned None after losing a race (the pool was never full while it
\* ran and is not full now) while another pull is at its fetch_or
C17_Witness ==
  /\ result = None
  /\ ~sawFull
  /\ LiveHandles < N
  /\ \E t \in Threads \ {Observed} : pc[t] = "fetch_or"

Owners == {t \in Threads : owns[t]}

\* C18. Shared state lifetime: the pool state is shared by all clones of
\* FixedPool and by every live handle (each holds one share of it) and is torn
\* down only when the last of them is dropped; a handle obtained through one
\* clone occupies its slot for pulls through every other clone, and a live
\* handle stays usable and releasable after every FixedPool has been dropped.
C18_SharedLifetime ==
  /\ torn <=> (Owners = {} /\ LiveHandles = 0)
  /\ ~torn => strong = Cardinality(Owners) + LiveHandles
  /\ \A i \in Indices : Handles(i) <= 1
  /\ (Owners = {} /\ ~crashed) =>
       \A i \in Indices : /\ live[i] > 0 => ENABLED DropReset(i)
                          /\ dropping[i] > 0 => ENABLED DropRelease(i)

\* every FixedPool has been dropped while one handle is held and another is
\* inside its drop: the pool state is still there
C18_Witness ==
  /\ Owners = {}
  /\ ~torn
  /\ \E i, j \in Slots : live[i] = 1 /\ dropping[j] = 1

\* ceil(n / BITS): the least k with k * BITS >= n
CeilWords(n) == CHOOSE k \in 0..n : k * BITS >= n /\ \A m \in 0..n : m * BITS >= n => k <= m

\* C19 as stated: for every element count N >= 0, N = 0 included, the number
\* of occupancy words created by FixedPool::new equals ceil(N / BITS).
C19_CeilLength == Len(pulled_elements) = CeilWords(N)

\* C19 as amended: the number of occupancy words created by FixedPool::new is
\* ceil(N / BITS) for N >= 1 and one word for N = 0; it never changes.
C19_CeilOrOneWord ==
  Len(pulled_elements) = IF N = 0 THEN 1 ELSE CeilWords(N)

\* a pool of zero values has one occupancy word, and a pull has scanned it
C19_Witness ==
  /\ N = 0
  /\ Len(pulled_elements) > CeilWords(N)
  /\ pc[Observed] # "idle"

\* this step of thread t's pull evaluates the scan expression (it is not a
\* fetch_or that wins), on the snapshot ScanInput(t)
Scans(t) ==
  PullStep(t) /\ ~(pc[t] = "fetch_or"
                    /\ Won(pulled_elements[usize_index[t] + 1], Mask(next_zero[t])))

ScanInput(t) ==
  CASE pc[t] = "idle" -> pulled_elements[1]
    [] pc[t] = "load" -> pulled_elements[usize_index[t] + 1]
    [] OTHER -> present_value[t]

\* C20. Shift amounts stay in range: the shift amount is below BITS in every
\* evaluation of (usize::MAX << 1) << next_zero and of 1 << next_zero in pull,
\* of usize::MAX << remaining_elements_len in new and of 1 << bit_index in
\* drop, for every reachable word value, a word whose bits are all set included.
C20_ShiftsInRange ==
  [][/\ ~ShlOverflows(N % BITS)
     /\ \A i \in Indices : Handles(i) > 0 => ~ShlOverflows(i % BITS)
     /\ \A t \in Threads :
          /\ pc[t] = "fetch_or" => ~ShlOverflows(next_zero[t])
          /\ Scans(t) => ~ShlOverflows(trailing_ones(ScanInput(t)))]_vars

====
